---- MODULE Spec2Model ----
(***************************************************************************)
(* seqbot/demuxer: the CBCL tile decoder (bcl2fu.get_byte_lists), the      *)
(* per-task read assembly and counting (bcl2fu.read_tiles) and the         *)
(* coordinator that checks the headers and dispatches the tasks to a       *)
(* process pool (bcl2fu.main).                                             *)
(*                                                                         *)
(* Three specifications share the operators translated from the code:      *)
(*   SpecDecode  one call of the decoder on one (cycle file, tile);        *)
(*   SpecTask    one call of read_tiles on the files of one group;         *)
(*   Spec        the coordinator from the header loop to 'done!', with the *)
(*               pool's workers running read_tiles.                        *)
(* Four more stand apart, each on variables of its own:                    *)
(*   SpecHeader  read_cbcl_data on one cycle file;                         *)
(*   SpecSelect  the cycle files bcl2fu.main selects for one lane;         *)
(*   SpecLog     read_extraction.main from get_thread_logger to 'done!',   *)
(*               with the log listener;                                    *)
(*   SpecScan    demuxer.main batching and demuxing one run.               *)
(*                                                                         *)
(* numpy is modelled as released since 1.13: a boolean mask whose length   *)
(* differs from the indexed axis raises IndexError, an assignment whose    *)
(* right side cannot be broadcast raises ValueError, a right side of       *)
(* length 1 is broadcast.                                                  *)
(***************************************************************************)
EXTENDS Integers, Sequences, FiniteSets, TLC

VARIABLES
    dec,                   \* SpecDecode: the decoder's input and what it yields
    job,                   \* SpecTask: the arguments of read_tiles and what it leaves
    pc,                    \* main: where the coordinator stands
    n_threads,             \* args.n_threads
    cbcl_file_lists,       \* the selected cycle files of each lane, in lane order
    cbcl_number_of_tiles,  \* the tile count appended for each lane read so far
    tasks,                 \* the argument tuples handed to imap_unordered
    next_task,             \* the next tuple the pool hands to a free worker
    running,               \* the tuples worker processes are running
    results,               \* what each finished call of read_tiles left
    artifacts,             \* index_counts_<N>.txt.gz: how many tasks wrote it
    faults,                \* tasks that met a corrupt block so far
    directories_differ,    \* some lane read so far has cycle files that disagree
    hdr,                   \* SpecHeader: a cycle file and what read_cbcl_data makes of it
    rx_args,               \* read_extraction.main: args.n_threads and the lane/part groups
    rx_pc,                 \* read_extraction.main: where it stands
    rx_raised,             \* an exception is on its way out of main
    rx_handled,            \* tuples of the zip the pool's task handler has taken
    log_queue,             \* the mp.Queue of get_thread_logger
    log_thread,            \* the thread running process_logs
    logged,                \* the records process_logs has passed to the logger
    sel,                   \* SpecSelect: the cycle files of a lane and the list main selects
    scan_args,             \* demuxer.main: the data rows of a run's sample sheet, sample_n
    scan_pc,               \* demuxer.main: where the scan stands for the run
    batch_files,           \* <run>_<i>.csv written in this scan: the data rows of each
    invocations            \* the -samplesheet index of each demux command run so far

mainVars == <<pc, n_threads, cbcl_file_lists, cbcl_number_of_tiles, tasks, next_task,
              running, results, artifacts, faults, directories_differ>>

\* the variables of the specifications that stand apart from the coordinator
logVars == <<rx_args, rx_pc, rx_raised, rx_handled, log_queue, log_thread, logged>>

scanVars == <<scan_args, scan_pc, batch_files, invocations>>

toolVars == <<hdr, logVars, sel, scanVars>>

vars == <<dec, job, mainVars, toolVars>>

(***************************************************************************)
(* Bounds of the inputs.                                                   *)
(***************************************************************************)
MaxBytes == 2

\* one call of read_tiles: bytes of a block, tiles, cycle files, pool size
MaxTaskBytes == 1

MaxTaskTiles == 2

MaxTaskCycles == 2

MaxTaskProcs == 2

\* the coordinator: worker processes, tiles of a lane, selected cycles,
\* tasks of a run that meet a corrupt block
MaxThreads == 2

MaxTiles == 3

MaxCycles == 2

MaxFaults == 1

\* a header: the bins and the tile records it declares
MaxBins == 1

MaxTileRecords == 1

\* read_extraction.main: worker processes, lane/part groups with files
MaxRxThreads == 3

MaxLaneParts == 3

\* the cycles and the parts a lane has files for
MaxSelCycles == 3

MaxParts == 2

\* the orchestrator: data rows of a sample sheet, batch size
MaxRows == 5

MaxSampleN == 5

\* 0x00, 0x1B, 0x33, 0xC6: bytes with and without quality bits set
ByteVals == {0, 27, 51, 198}

\* the block of the worked example: 0x00 0x01 0x02 0x03 0x33
ExampleBlock == <<0, 1, 2, 3, 51>>

SeqsUpTo(S, n) == UNION {[1..k -> S] : k \in 0..n}

Blocks == SeqsUpTo(ByteVals, MaxBytes) \cup {ExampleBlock}

Filters == SeqsUpTo(BOOLEAN, 2 * MaxBytes)

(***************************************************************************)
(* numpy helpers                                                           *)
(***************************************************************************)
\* a[::2]
EvenSlice(a) == [k \in 1..((Len(a) + 1) \div 2) |-> a[2 * k - 1]]

\* a[1::2]
OddSlice(a) == [k \in 1..(Len(a) \div 2) |-> a[2 * k]]

\* a[mask] for a boolean mask of the same length
RECURSIVE MaskSelect(_, _)
MaskSelect(a, mask) ==
    IF a = <<>> THEN <<>>
    ELSE (IF Head(mask) THEN <<Head(a)>> ELSE <<>>) \o MaskSelect(Tail(a), Tail(mask))

\* byte_array & 0b11
LowBase(b) == b % 4

\* a slip: the shift by 4 forgotten
HighBase_NoShift(b) == b % 4

\* byte_array >> 4 & 0b11
HighBase(b) == (b \div 16) % 4

LowBases(byte_array) == [k \in 1..Len(byte_array) |-> LowBase(byte_array[k])]

HighBases(byte_array) == [k \in 1..Len(byte_array) |-> HighBase(byte_array[k])]

(***************************************************************************)
(* What get_byte_lists yields for one cycle file: a vector, None, or an    *)
(* exception raised out of the generator.                                  *)
(***************************************************************************)
Vec(v) == [kind |-> "vec", v |-> v, exc |-> ""]

None == [kind |-> "none", v |-> <<>>, exc |-> ""]

Raise(e) == [kind |-> "raise", v |-> <<>>, exc |-> e]

\* A tile block of a cycle file: tile_offsets[tile_i, 2] (usize), how
\* GzipFile.read ends on its bytes (gz) and the bytes it returns (data).
\*   gz = "ok"       the block decompresses
\*   gz = "oserror"  not a gzip file, or a failed CRC/length check: OSError
\*   gz = "error"    a corrupt deflate stream (zlib.error) or a truncated
\*                   one (EOFError): neither is an OSError
GzKinds == {"ok", "oserror", "error"}

\* lines 130-143, for one file: tile is the file's tile block,
\* excluded is ci.non_PF_clusters_excluded, cf the tile's filter
decode_block(excluded, tile, cf) ==
    IF tile.gz = "oserror" THEN None
    ELSE IF tile.gz = "error" THEN Raise("zlib.error")
    ELSE IF Len(tile.data) < tile.usize THEN Raise("ValueError")
    ELSE LET byte_array == SubSeq(tile.data, 1, tile.usize) IN
         IF excluded
         THEN Vec(LowBases(byte_array) \o HighBases(byte_array))
         ELSE IF Len(EvenSlice(cf)) # Len(byte_array) \/ Len(OddSlice(cf)) # Len(byte_array)
              THEN Raise("IndexError")
              ELSE Vec(MaskSelect(LowBases(byte_array), EvenSlice(cf))
                       \o MaskSelect(HighBases(byte_array), OddSlice(cf)))

\* get_byte_lists(cbcl_files, lane, tile_i): what the generator yields for
\* each cycle file in turn.  A cycle file is its header and its tile blocks:
\*   [number_of_tile_records, non_PF_clusters_excluded, tiles]
\* and filters is cbcl_filter_data[lane], indexed like the tile directory.
get_byte_lists(cbcl_files, filters, tile_i) ==
    [j \in 1..Len(cbcl_files) |->
        LET ci == cbcl_files[j] IN
        IF tile_i >= ci.number_of_tile_records THEN Raise("IndexError")
        ELSE IF tile_i >= Len(filters) THEN Raise("KeyError")
        ELSE decode_block(ci.non_PF_clusters_excluded, ci.tiles[tile_i + 1],
                          filters[tile_i + 1])]

(***************************************************************************)
(* read_tiles                                                              *)
(***************************************************************************)
\* 'ACGTN'[b]
Chars == <<"A", "C", "G", "T", "N">>

ToChars(v) == [k \in 1..Len(v) |-> Chars[v[k] + 1]]

\* range(i, n_tiles): every tile from i on, whatever the pool size
RECURSIVE TileRange_NoStride(_, _, _)
TileRange_NoStride(i, n_tiles, nproc) ==
    IF i >= n_tiles THEN <<>> ELSE <<i>> \o TileRange_NoStride(i + 1, n_tiles, nproc)

\* range(i, n_tiles, nproc)
RECURSIVE TileRange(_, _, _)
TileRange(i, n_tiles, nproc) ==
    IF i >= n_tiles THEN <<>> ELSE <<i>> \o TileRange(i + nproc, n_tiles, nproc)

\* 4 * np.ones((rows, ncols)), then byte_matrix[:, 0] = byte_array
FirstColumn(byte_array, ncols) ==
    [k \in 1..Len(byte_array) |-> [j \in 1..ncols |-> IF j = 1 THEN byte_array[k] ELSE 4]]

\* numpy accepts byte_matrix[:, j] = byte_array when the lengths agree or
\* byte_array has one element, which it repeats down the column
CanAssign(byte_matrix, byte_array) ==
    Len(byte_array) = Len(byte_matrix) \/ Len(byte_array) = 1

SetColumn(byte_matrix, j, byte_array) ==
    [k \in 1..Len(byte_matrix) |->
        [byte_matrix[k] EXCEPT ![j] =
            IF Len(byte_array) = 1 THEN byte_array[1] ELSE byte_array[k]]]

\* for j, byte_array in ba_generator: ... (lines 164-166), from column j on
RECURSIVE FillColumns(_, _, _)
FillColumns(byte_matrix, yields, j) ==
    IF j > Len(yields) THEN [exc |-> "", byte_matrix |-> byte_matrix]
    ELSE IF yields[j].kind = "raise" THEN [exc |-> yields[j].exc, byte_matrix |-> <<>>]
    ELSE IF yields[j].kind = "none" THEN FillColumns(byte_matrix, yields, j + 1)
    ELSE IF ~CanAssign(byte_matrix, yields[j].v) THEN [exc |-> "ValueError", byte_matrix |-> <<>>]
    ELSE FillColumns(SetColumn(byte_matrix, j, yields[j].v), yields, j + 1)

\* the body of the loop over the task's tiles (lines 157-166): the tile's
\* byte matrix, or the exception that leaves the loop
TileMatrix(cbcl_files, filters, ii) ==
    LET yields == get_byte_lists(cbcl_files, filters, ii) IN
    IF yields[1].kind = "raise" THEN [exc |-> yields[1].exc, byte_matrix |-> <<>>]
    ELSE IF yields[1].kind = "none" THEN [exc |-> "AttributeError", byte_matrix |-> <<>>]
    ELSE FillColumns(FirstColumn(yields[1].v, Len(cbcl_files)), yields, 2)

\* ''.join('ACGTN'[b] for b in byte_matrix[k,:]) for k in range(rows)
Reads(byte_matrix) == [k \in 1..Len(byte_matrix) |-> ToChars(byte_matrix[k])]

\* read_counter += Counter(reads)
CounterAdd(read_counter, reads) ==
    LET keys == DOMAIN read_counter \cup {reads[k] : k \in 1..Len(reads)} IN
    [r \in keys |->
        (IF r \in DOMAIN read_counter THEN read_counter[r] ELSE 0)
        + Cardinality({k \in 1..Len(reads) : reads[k] = r})]

EmptyCounter == [r \in {} |-> 0]

\* the loop of line 156 over the tile indices still to do
RECURSIVE TileLoop(_, _, _, _, _)
TileLoop(cbcl_files, filters, todo, read_counter, visited) ==
    IF todo = <<>> THEN [exc |-> "", read_counter |-> read_counter, visited |-> visited]
    ELSE LET t == TileMatrix(cbcl_files, filters, Head(todo)) IN
         IF t.exc # "" THEN [exc |-> t.exc, read_counter |-> read_counter, visited |-> visited]
         ELSE TileLoop(cbcl_files, filters, Tail(todo),
                       CounterAdd(read_counter, Reads(t.byte_matrix)),
                       Append(visited, Head(todo)))

\* read_tiles without its except clause: the exception leaves the call
read_tiles_Uncaught(cbcl_files, filters, i, nproc, n_tiles) ==
    IF cbcl_files = <<>>
    THEN [status |-> "raised", exc |-> "IndexError", artifact |-> EmptyCounter,
          visited |-> <<>>, log |-> <<>>]
    ELSE LET r == TileLoop(cbcl_files, filters, TileRange(i, n_tiles, nproc),
                           EmptyCounter, <<>>) IN
         IF r.exc # ""
         THEN [status |-> "raised", exc |-> r.exc, artifact |-> EmptyCounter,
               visited |-> r.visited, log |-> <<"starting pooljob">>]
         ELSE [status |-> "written", exc |-> "", artifact |-> r.read_counter,
               visited |-> r.visited,
               log |-> <<"starting pooljob", "pooljob done", "writing">>]

\* What a call of read_tiles leaves: whether it wrote its artifact
\* (status "written", artifact = the lines read -> count) or caught an
\* exception (status "failed"), what it printed, and the tiles it counted.
\* read_tiles returns normally either way: the except clause ends it.
read_tiles(cbcl_files, filters, i, nproc, n_tiles) ==
    IF cbcl_files = <<>>
    THEN [status |-> "failed", exc |-> "IndexError", artifact |-> EmptyCounter,
          visited |-> <<>>, log |-> <<"encountered exception in process">>]
    ELSE LET r == TileLoop(cbcl_files, filters, TileRange(i, n_tiles, nproc),
                           EmptyCounter, <<>>) IN
         IF r.exc # ""
         THEN [status |-> "failed", exc |-> r.exc, artifact |-> EmptyCounter,
               visited |-> r.visited,
               log |-> <<"starting pooljob", "encountered exception in process">>]
         ELSE [status |-> "written", exc |-> "", artifact |-> r.read_counter,
               visited |-> r.visited,
               log |-> <<"starting pooljob", "pooljob done", "writing">>]

(***************************************************************************)
(* SpecDecode: the decoder on one tile block.                              *)
(***************************************************************************)
Idle == [st |-> "idle"]

\* the specifications that stand apart are not part of this one
LogIdle ==
    /\ rx_args = Idle
    /\ rx_pc = "idle"
    /\ rx_raised = FALSE
    /\ rx_handled = 0
    /\ log_queue = <<>>
    /\ log_thread = "idle"
    /\ logged = <<>>

ScanIdle ==
    /\ scan_args = Idle
    /\ scan_pc = "idle"
    /\ batch_files = <<>>
    /\ invocations = <<>>

ToolsIdle ==
    /\ hdr = Idle
    /\ LogIdle
    /\ sel = Idle
    /\ ScanIdle

\* the coordinator is not part of this specification
MainIdle ==
    /\ pc = "idle"
    /\ n_threads = 1
    /\ cbcl_file_lists = <<>>
    /\ cbcl_number_of_tiles = <<>>
    /\ tasks = <<>>
    /\ next_task = 1
    /\ running = {}
    /\ results = <<>>
    /\ artifacts = <<>>
    /\ faults = 0
    /\ directories_differ = FALSE

\* the uncompressed size the header declares: that of the block, or off by one
USizes(d) == {u \in {Len(d) - 1, Len(d), Len(d) + 1} : u >= 0}

DecodeInput(excluded, tile, cf) ==
    [st |-> "in", excluded |-> excluded, tile |-> tile, cf |-> cf, out |-> None]

InitDecode ==
    /\ job = Idle
    /\ MainIdle
    /\ ToolsIdle
    /\ \E e \in BOOLEAN, f \in Filters :
         \/ \E d \in Blocks : \E u \in USizes(d) :
              dec = DecodeInput(e, [gz |-> "ok", usize |-> u, data |-> d], f)
         \/ \E g \in GzKinds \ {"ok"} :
              dec = DecodeInput(e, [gz |-> g, usize |-> 1, data |-> <<>>], f)

Decode ==
    /\ dec.st = "in"
    /\ dec' = [dec EXCEPT !.st = "out", !.out = decode_block(dec.excluded, dec.tile, dec.cf)]
    /\ UNCHANGED <<job, mainVars, toolVars>>

NextDecode == Decode

SpecDecode == InitDecode /\ [][NextDecode]_vars

(***************************************************************************)
(* SpecTask: one call of read_tiles.  The cycle files of the group agree   *)
(* on the tile count (main asserts it); the blocks and filters of the      *)
(* tiles the task reads are drawn freely, the other tiles are never read.  *)
(***************************************************************************)
TaskByteVals == {27, 198}

TaskTiles ==
    {[gz |-> "ok", usize |-> Len(d), data |-> d] : d \in SeqsUpTo(TaskByteVals, MaxTaskBytes)}
    \cup {[gz |-> g, usize |-> 1, data |-> <<>>] : g \in GzKinds \ {"ok"}}

TaskFilters == SeqsUpTo(BOOLEAN, 2 * MaxTaskBytes)

UnreadTile == [gz |-> "ok", usize |-> 0, data |-> <<>>]

RangeSet(i, n_tiles, nproc) ==
    {TileRange(i, n_tiles, nproc)[k] : k \in 1..Len(TileRange(i, n_tiles, nproc))}

TaskInput(i, nproc, n_tiles, excl, blk, cfs) ==
    LET R == RangeSet(i, n_tiles, nproc) IN
    [st |-> "in", i |-> i, nproc |-> nproc, n_tiles |-> n_tiles,
     cbcl_files |->
         [j \in DOMAIN excl |->
             [number_of_tile_records |-> n_tiles,
              non_PF_clusters_excluded |-> excl[j],
              tiles |-> [t \in 1..n_tiles |->
                            IF t - 1 \in R THEN blk[j][t - 1] ELSE UnreadTile]]],
     filters |-> [t \in 1..n_tiles |-> IF t - 1 \in R THEN cfs[t - 1] ELSE <<>>],
     out |-> <<>>]

InitTask ==
    /\ dec = Idle
    /\ MainIdle
    /\ ToolsIdle
    /\ \E nproc \in 1..MaxTaskProcs, n_tiles \in 0..MaxTaskTiles, ncycles \in 1..MaxTaskCycles :
         \E i \in 0..(nproc - 1) :
           \E excl \in [1..ncycles -> BOOLEAN],
              blk \in [1..ncycles -> [RangeSet(i, n_tiles, nproc) -> TaskTiles]],
              cfs \in [RangeSet(i, n_tiles, nproc) -> TaskFilters] :
                job = TaskInput(i, nproc, n_tiles, excl, blk, cfs)

RunReadTiles ==
    /\ job.st = "in"
    /\ job' = [job EXCEPT !.st = "out",
                           !.out = read_tiles(job.cbcl_files, job.filters, job.i,
                                              job.nproc, job.n_tiles)]
    /\ UNCHANGED <<dec, mainVars, toolVars>>

NextTask == RunReadTiles

SpecTask == InitTask /\ [][NextTask]_vars

(***************************************************************************)
(* Spec: bcl2fu.main from the header loop (line 230) to 'done!', and the   *)
(* pool's worker processes.  cbcl_file_lists is the table of selected      *)
(* cycle files per lane that lines 188-221 build, and is read as that      *)
(* table by the header loop (232) and by the zip (277); the log lines 223  *)
(* and 255, which ask the list of line 218 for .values(), are not steps of *)
(* this specification.  A cycle file is named by its lane and cycle.  The  *)
(* headers are drawn as the header loop reads them, the blocks and filters *)
(* as a worker reads them: every header and every block is read once in a  *)
(* run.                                                                    *)
(***************************************************************************)
ClusterCounts == {1, 2}

\* the lanes, of (1, 2, 3, 4), that have cycle files
LaneLists == {<<1>>, <<2, 4>>}

\* a parsed header: the tile count and tile_offsets[:, 1] (cluster counts)
Headers ==
    UNION {{[number_of_tile_records |-> m, clusters |-> c] : c \in [1..m -> ClusterCounts]} :
             m \in 0..MaxTiles}

\* rep_n: each element of s repeated n times
rep_n(s, n) == [x \in 1..(Len(s) * n) |-> s[((x - 1) \div n) + 1]]

Min2(a, b) == IF a <= b THEN a ELSE b

\* the zip with the artifact number counted within each lane
Dispatch_PerLaneNames(file_lists, n, number_of_tiles) ==
    LET lanes == rep_n([g \in 1..Len(file_lists) |-> file_lists[g].lane], n)
        files == rep_n([g \in 1..Len(file_lists) |-> file_lists[g].cbcl_fl], n)
        n_tiles == rep_n(number_of_tiles, n)
    IN  [x \in 1..Min2(Len(lanes), Min2(Len(files), Len(n_tiles))) |->
            [lane |-> lanes[x], cbcl_files |-> files[x], i |-> (x - 1) % n, nproc |-> n,
             n_tiles |-> n_tiles[x], out_file |-> (x - 1) % n]]

\* the zip of lines 275-283: it ends with its shortest iterable; worker ids
\* cycle through range(n), the artifact number counts the tuples from 0
Dispatch(file_lists, n, number_of_tiles) ==
    LET lanes == rep_n([g \in 1..Len(file_lists) |-> file_lists[g].lane], n)
        files == rep_n([g \in 1..Len(file_lists) |-> file_lists[g].cbcl_fl], n)
        n_tiles == rep_n(number_of_tiles, n)
    IN  [x \in 1..Min2(Len(lanes), Min2(Len(files), Len(n_tiles))) |->
            [lane |-> lanes[x], cbcl_files |-> files[x], i |-> (x - 1) % n, nproc |-> n,
             n_tiles |-> n_tiles[x], out_file |-> x - 1]]

InitMain ==
    /\ dec = Idle
    /\ job = Idle
    /\ ToolsIdle
    /\ pc = "headers"
    /\ n_threads \in 1..MaxThreads
    /\ \E lanes \in LaneLists, ncycles \in 0..MaxCycles :
         cbcl_file_lists =
             [g \in 1..Len(lanes) |->
                 [lane |-> lanes[g], cbcl_fl |-> [c \in 1..ncycles |-> <<lanes[g], c>>]]]
    /\ cbcl_number_of_tiles = <<>>
    /\ tasks = <<>>
    /\ next_task = 1
    /\ running = {}
    /\ results = <<>>
    /\ artifacts = <<>>
    /\ faults = 0
    /\ directories_differ = FALSE

\* one turn of the loop of lines 232-245 for the next lane: read the headers
\* of its files, assert that they give one tile count, append it
ReadHeaders ==
    /\ pc = "headers"
    /\ LET g == Len(cbcl_number_of_tiles) + 1
           cbcl_fl == cbcl_file_lists[g].cbcl_fl
       IN  \E cbcl_data \in [1..Len(cbcl_fl) -> Headers] :
             LET number_of_tiles ==
                     {cbcl_data[j].number_of_tile_records : j \in 1..Len(cbcl_fl)}
             IN  /\ directories_differ' =
                        (directories_differ
                         \/ \E j1, j2 \in 1..Len(cbcl_fl) : cbcl_data[j1] # cbcl_data[j2])
                 /\ IF Cardinality(number_of_tiles) # 1
                    THEN /\ pc' = "raised"
                         /\ UNCHANGED cbcl_number_of_tiles
                    ELSE /\ cbcl_number_of_tiles' =
                                Append(cbcl_number_of_tiles,
                                       CHOOSE m \in number_of_tiles : TRUE)
                         /\ pc' = IF g = Len(cbcl_file_lists) THEN "filters" ELSE "headers"
    /\ UNCHANGED <<toolVars, dec, job, n_threads, cbcl_file_lists, tasks, next_task, running, results,
                   artifacts, faults>>

\* lines 247-248
ReadFilters ==
    /\ pc = "filters"
    /\ pc' = "pool"
    /\ UNCHANGED <<toolVars, dec, job, n_threads, cbcl_file_lists, cbcl_number_of_tiles, tasks,
                   next_task, running, results, artifacts, faults, directories_differ>>

\* line 253
CreatePool ==
    /\ pc = "pool"
    /\ pc' = "submit"
    /\ UNCHANGED <<toolVars, dec, job, n_threads, cbcl_file_lists, cbcl_number_of_tiles, tasks,
                   next_task, running, results, artifacts, faults, directories_differ>>

Unfinished(st) == [status |-> st, exc |-> "", log |-> <<>>]

\* a file of output_dir that no task has written
NoArtifact == [writes |-> 0, tiles |-> <<>>]

\* lines 273-284: imap_unordered takes the tuples and returns at once
Submit ==
    /\ pc = "submit"
    /\ tasks' = Dispatch(cbcl_file_lists, n_threads, cbcl_number_of_tiles)
    /\ results' = [x \in 1..Len(tasks') |-> Unfinished("queued")]
    /\ artifacts' = [x \in 1..Len(tasks') |-> NoArtifact]
    /\ pc' = "close"
    /\ UNCHANGED <<toolVars, dec, job, n_threads, cbcl_file_lists, cbcl_number_of_tiles, next_task,
                   running, faults, directories_differ>>

\* line 286
Close ==
    /\ pc = "close"
    /\ pc' = "join"
    /\ UNCHANGED <<toolVars, dec, job, n_threads, cbcl_file_lists, cbcl_number_of_tiles, tasks,
                   next_task, running, results, artifacts, faults, directories_differ>>

Finished(x) == results[x].status \notin {"queued", "running"}

\* lines 287-289: join returns when every tuple has been run
Join ==
    /\ pc = "join"
    /\ \A x \in 1..Len(tasks) : Finished(x)
    /\ pc' = "done"
    /\ UNCHANGED <<toolVars, dec, job, n_threads, cbcl_file_lists, cbcl_number_of_tiles, tasks,
                   next_task, running, results, artifacts, faults, directories_differ>>

\* the pool hands the next tuple to a free worker process
Start ==
    /\ pc \in {"close", "join"}
    /\ next_task <= Len(tasks)
    /\ Cardinality(running) < n_threads
    /\ running' = running \cup {next_task}
    /\ results' = [results EXCEPT ![next_task] = Unfinished("running")]
    /\ next_task' = next_task + 1
    /\ UNCHANGED <<toolVars, dec, job, pc, n_threads, cbcl_file_lists, cbcl_number_of_tiles, tasks,
                   artifacts, faults, directories_differ>>

\* the blocks a worker finds: sound ones, but for at most one corrupt block
SoundTile == [gz |-> "ok", usize |-> 1, data |-> <<27>>]

SoundFilter == <<TRUE, TRUE>>

NoDefect == [ii |-> -1, j |-> 0, gz |-> "ok"]

\* the corrupt block is in the first or the last cycle file of a tile
Defects(i, nproc, n_tiles, ncycles) ==
    {NoDefect} \cup
    {[ii |-> ii, j |-> j, gz |-> g] :
        ii \in RangeSet(i, n_tiles, nproc), j \in {1, ncycles}, g \in GzKinds \ {"ok"}}

FilesRead(n_tiles, ncycles, defect) ==
    [j \in 1..ncycles |->
        [number_of_tile_records |-> n_tiles,
         non_PF_clusters_excluded |-> TRUE,
         tiles |-> [t \in 1..n_tiles |->
                       IF defect.ii = t - 1 /\ defect.j = j
                       THEN [gz |-> defect.gz, usize |-> 1, data |-> <<>>]
                       ELSE SoundTile]]]

\* what read_tiles leaves on a tuple, for each way its blocks can be
Outcomes ==
    [i \in 0..(MaxThreads - 1), nproc \in 1..MaxThreads, n_tiles \in 0..MaxTiles,
     ncycles \in 0..MaxCycles |->
        {[corrupt |-> defect # NoDefect,
          r |-> read_tiles(FilesRead(n_tiles, ncycles, defect),
                           [t \in 1..n_tiles |-> SoundFilter], i, nproc, n_tiles)] :
            defect \in Defects(i, nproc, n_tiles, ncycles)}]

\* a worker process runs read_tiles on its tuple to the end
Finish(x) ==
    /\ x \in running
    /\ \E o \in Outcomes[tasks[x].i, tasks[x].nproc, tasks[x].n_tiles,
                          Len(tasks[x].cbcl_files)] :
         /\ o.corrupt => faults < MaxFaults
         /\ faults' = IF o.corrupt THEN faults + 1 ELSE faults
         /\ results' = [results EXCEPT ![x] =
                           [status |-> o.r.status, exc |-> o.r.exc, log |-> o.r.log]]
         /\ artifacts' = IF o.r.status = "written"
                         THEN [artifacts EXCEPT ![tasks[x].out_file + 1] =
                                  [writes |-> @.writes + 1, tiles |-> o.r.visited]]
                         ELSE artifacts
    /\ running' = running \ {x}
    /\ UNCHANGED <<toolVars, dec, job, pc, n_threads, cbcl_file_lists, cbcl_number_of_tiles, tasks,
                   next_task, directories_differ>>

Next ==
    \/ ReadHeaders
    \/ ReadFilters
    \/ CreatePool
    \/ Submit
    \/ Close
    \/ Join
    \/ Start
    \/ \E x \in running : Finish(x)

Spec == InitMain /\ [][Next]_vars

\* the coordinator and the worker processes are processes of the operating
\* system: a step that stays possible is taken
FairSpec == Spec /\ WF_vars(Next)

(***************************************************************************)
(* SpecHeader: read_cbcl_data on one cycle file.  The file is its size in  *)
(* bytes and the counts its fields declare; a field that lies beyond the   *)
(* end of the file is never read.                                          *)
(***************************************************************************)
HeaderRecord(t, excluded) ==
    [kind |-> "header", number_of_tile_records |-> t,
     non_PF_clusters_excluded |-> excluded, exc |-> ""]

HeaderRaise(e) ==
    [kind |-> "raise", number_of_tile_records |-> 0,
     non_PF_clusters_excluded |-> FALSE, exc |-> e]

\* np.fromfile(f, dtype=np.uint32, count=count): the items read when
\* avail bytes are left in the file
FromFile(count, avail) == Min2(count, avail \div 4)

\* lines 81-103 for one file: struct.unpack raises struct.error on a short
\* read, reshape raises ValueError when fromfile got fewer items than asked
read_cbcl_data(file) ==
    LET b == file.number_of_bins
        t == file.number_of_tile_records
        after_bins == 12 + 8 * b
        after_tiles == after_bins + 4 + 16 * t
    IN  IF file.size < 12 THEN HeaderRaise("struct.error")
        ELSE IF FromFile(2 * b, file.size - 12) # 2 * b THEN HeaderRaise("ValueError")
        ELSE IF file.size - after_bins < 4 THEN HeaderRaise("struct.error")
        ELSE IF FromFile(4 * t, file.size - after_bins - 4) # 4 * t
             THEN HeaderRaise("ValueError")
        ELSE IF file.size - after_tiles < 1 THEN HeaderRaise("struct.error")
        ELSE HeaderRecord(t, file.excluded)

\* the largest header of the bounds, and one byte of tile data after it
MaxHeaderSize == 12 + 8 * MaxBins + 4 + 16 * MaxTileRecords + 1 + 1

InitHeader ==
    /\ dec = Idle
    /\ job = Idle
    /\ MainIdle
    /\ LogIdle
    /\ sel = Idle
    /\ ScanIdle
    /\ \E size \in 0..MaxHeaderSize, b \in 0..MaxBins, t \in 0..MaxTileRecords,
          e \in BOOLEAN :
         hdr = [st |-> "in",
                file |-> [size |-> size, number_of_bins |-> b,
                          number_of_tile_records |-> t, excluded |-> e],
                out |-> HeaderRaise("")]

ParseHeader ==
    /\ hdr.st = "in"
    /\ hdr' = [hdr EXCEPT !.st = "out", !.out = read_cbcl_data(hdr.file)]
    /\ UNCHANGED <<dec, job, mainVars, logVars, sel, scanVars>>

NextHeader == ParseHeader

SpecHeader == InitHeader /\ [][NextHeader]_vars

(***************************************************************************)
(* SpecLog: read_extraction.main from get_thread_logger (line 218) to      *)
(* 'done!', with the pool's task handler and the thread that runs          *)
(* process_logs.  Every tuple of the zip holds log_queue, an mp.Queue: the *)
(* task handler cannot pickle it (RuntimeError: Queue objects should only  *)
(* be shared between processes through inheritance), records the error as  *)
(* the tuple's result and goes on, so no tuple reaches read_processor.     *)
(***************************************************************************)
\* the tuples of the zip (lines 232-240): n_threads for each lane/part group
RxTuples == rx_args.n_threads * rx_args.lane_parts

InitLog ==
    /\ dec = Idle
    /\ job = Idle
    /\ MainIdle
    /\ hdr = Idle
    /\ sel = Idle
    /\ ScanIdle
    /\ \E n \in 1..MaxRxThreads, g \in 0..MaxLaneParts :
         rx_args = [st |-> "in", n_threads |-> n, lane_parts |-> g]
    /\ rx_pc = "get_thread_logger"
    /\ rx_raised = FALSE
    /\ rx_handled = 0
    /\ log_queue = <<>>
    /\ log_thread = "unstarted"
    /\ logged = <<>>

\* lines 91-97 and 218: the queue is made and the thread started
GetThreadLogger ==
    /\ rx_pc = "get_thread_logger"
    /\ log_thread' = "running"
    /\ rx_pc' = "submit"
    /\ UNCHANGED <<dec, job, mainVars, hdr, sel, scanVars, rx_args, rx_raised, rx_handled, log_queue, logged>>

\* lines 229-241: imap_unordered takes the zip and returns at once
RxSubmit ==
    /\ rx_pc = "submit"
    /\ rx_pc' = "close"
    /\ UNCHANGED <<dec, job, mainVars, hdr, sel, scanVars, rx_args, rx_raised, rx_handled, log_queue,
                   log_thread, logged>>

\* lines 229-241: the call is left by an exception (the try block provides
\* for it); the finally clause runs with the exception pending
RxSubmitRaises ==
    /\ rx_pc = "submit"
    /\ rx_raised' = TRUE
    /\ rx_pc' = "close"
    /\ UNCHANGED <<dec, job, mainVars, hdr, sel, scanVars, rx_args, rx_handled, log_queue, log_thread,
                   logged>>

\* the pool's task handler takes the next tuple of the zip and fails to
\* pickle it: the tuple is never run
RxHandleTask ==
    /\ rx_pc \in {"close", "join"}
    /\ ~rx_raised
    /\ rx_handled < RxTuples
    /\ rx_handled' = rx_handled + 1
    /\ UNCHANGED <<dec, job, mainVars, hdr, sel, scanVars, rx_args, rx_pc, rx_raised, log_queue,
                   log_thread, logged>>

\* line 243
RxClose ==
    /\ rx_pc = "close"
    /\ rx_pc' = "join"
    /\ UNCHANGED <<dec, job, mainVars, hdr, sel, scanVars, rx_args, rx_raised, rx_handled, log_queue,
                   log_thread, logged>>

\* line 244: join returns when the task handler has gone through the zip;
\* a pending exception then leaves main
RxJoin ==
    /\ rx_pc = "join"
    /\ rx_raised \/ rx_handled = RxTuples
    /\ rx_pc' = IF rx_raised THEN "raised" ELSE "put_stop"
    /\ UNCHANGED <<dec, job, mainVars, hdr, sel, scanVars, rx_args, rx_raised, rx_handled, log_queue,
                   log_thread, logged>>

\* line 246
PutStop ==
    /\ rx_pc = "put_stop"
    /\ log_queue' = Append(log_queue, "STOP")
    /\ rx_pc' = "join_thread"
    /\ UNCHANGED <<dec, job, mainVars, hdr, sel, scanVars, rx_args, rx_raised, rx_handled, log_thread,
                   logged>>

\* lines 46-51: one turn of iter(q.get, 'STOP')
process_logs ==
    /\ log_thread = "running"
    /\ log_queue # <<>>
    /\ log_queue' = Tail(log_queue)
    /\ IF Head(log_queue) = "STOP"
       THEN log_thread' = "ended" /\ UNCHANGED logged
       ELSE logged' = Append(logged, Head(log_queue)) /\ UNCHANGED log_thread
    /\ UNCHANGED <<dec, job, mainVars, hdr, sel, scanVars, rx_args, rx_pc, rx_raised, rx_handled>>

\* lines 247-249: log_thread.join() and 'done!'
JoinLogThread ==
    /\ rx_pc = "join_thread"
    /\ log_thread = "ended"
    /\ rx_pc' = "done"
    /\ UNCHANGED <<dec, job, mainVars, hdr, sel, scanVars, rx_args, rx_raised, rx_handled, log_queue,
                   log_thread, logged>>

NextLog ==
    \/ GetThreadLogger
    \/ RxSubmit
    \/ RxSubmitRaises
    \/ RxHandleTask
    \/ RxClose
    \/ RxJoin
    \/ PutStop
    \/ process_logs
    \/ JoinLogThread

SpecLog == InitLog /\ [][NextLog]_vars

\* main, the task handler and the listener are threads of a running process
FairSpecLog == SpecLog /\ WF_vars(NextLog)

(***************************************************************************)
(* SpecSelect: the cycle files bcl2fu.main selects for one lane (lines     *)
(* 191-221).  A cycle file C<cycle>.1/L00<lane>_<part>.cbcl is the pair of *)
(* its cycle and its part.                                                 *)
(***************************************************************************)
CycleFile(c, part) == [cycle |-> c, part |-> part]

\* glob.glob(.../C*.1/L00<lane>_<part>.cbcl): the cycles that have the file
GlobCycles(files, part) == {f.cycle : f \in {g \in files : g.part = part}}

\* cbcl_files.sort(key=get_cycle)
RECURSIVE SortByCycle(_, _)
SortByCycle(cycles, part) ==
    IF cycles = {} THEN <<>>
    ELSE LET c == CHOOSE x \in cycles : \A y \in cycles : x <= y
         IN  <<CycleFile(c, part)>> \o SortByCycle(cycles \ {c}, part)

\* for part in itertools.count(1): the sorted files of the part are
\* appended to the lane's list; the first part without files ends the loop
RECURSIVE PartsLoop(_, _)
PartsLoop(files, part) ==
    IF GlobCycles(files, part) = {} THEN <<>>
    ELSE SortByCycle(GlobCycles(files, part), part) \o PartsLoop(files, part + 1)

in_range(f, index_cycle_start, index_cycle_end) ==
    index_cycle_start <= f.cycle /\ f.cycle < index_cycle_end

\* lines 218-221: the lane's list, filtered
RECURSIVE FilterInRange(_, _, _)
FilterInRange(cbcl_files, index_cycle_start, index_cycle_end) ==
    IF cbcl_files = <<>> THEN <<>>
    ELSE (IF in_range(Head(cbcl_files), index_cycle_start, index_cycle_end)
          THEN <<Head(cbcl_files)>> ELSE <<>>)
         \o FilterInRange(Tail(cbcl_files), index_cycle_start, index_cycle_end)

SelectedFiles(files, index_cycle_start, index_cycle_end) ==
    FilterInRange(PartsLoop(files, 1), index_cycle_start, index_cycle_end)

InitSelect ==
    /\ dec = Idle
    /\ job = Idle
    /\ MainIdle
    /\ hdr = Idle
    /\ LogIdle
    /\ ScanIdle
    /\ \E files \in SUBSET {CycleFile(c, part) : c \in 1..MaxSelCycles, part \in 1..MaxParts},
          a \in 1..(MaxSelCycles + 1), b \in 1..(MaxSelCycles + 1) :
         sel = [st |-> "in", files |-> files, index_cycle_start |-> a,
                index_cycle_end |-> b, out |-> <<>>]

SelectCycleFiles ==
    /\ sel.st = "in"
    /\ sel' = [sel EXCEPT !.st = "out",
                          !.out = SelectedFiles(sel.files, sel.index_cycle_start,
                                                sel.index_cycle_end)]
    /\ UNCHANGED <<dec, job, mainVars, hdr, logVars, scanVars>>

NextSelect == SelectCycleFiles

SpecSelect == InitSelect /\ [][NextSelect]_vars

(***************************************************************************)
(* SpecScan: demuxer.main on one completed run whose sample sheet has an   *)
(* index column (lines 143-183): the batch sample sheets are written, then *)
(* the demux command is run for each turn of the second loop.              *)
(***************************************************************************)
\* len(range(0, stop, step))
RangeLen(stop, step) == (stop + step - 1) \div step

\* int(len(rows) % sample_n > 0)
Remainder(len_rows, sample_n) == IF len_rows % sample_n > 0 THEN 1 ELSE 0

\* line 150: the turns of the loop that writes the batch files
WriteTurns(len_rows, sample_n) ==
    RangeLen(len_rows + Remainder(len_rows, sample_n), sample_n)

\* line 156: range(len(rows) + int(...) // sample_n), the division first
DemuxTurns(len_rows, sample_n) ==
    len_rows + (Remainder(len_rows, sample_n) \div sample_n)

\* line 145
batched(len_rows, sample_n) == len_rows > sample_n

InitScan ==
    /\ dec = Idle
    /\ job = Idle
    /\ MainIdle
    /\ hdr = Idle
    /\ LogIdle
    /\ sel = Idle
    /\ \E r \in 0..MaxRows, n \in 1..MaxSampleN :
         scan_args = [st |-> "in", len_rows |-> r, sample_n |-> n]
    /\ scan_pc = "write"
    /\ batch_files = <<>>
    /\ invocations = <<>>

\* lines 150-154: one turn, file <run>_<i>.csv with rows[j:j + sample_n]
WriteBatch ==
    /\ scan_pc = "write"
    /\ LET i == Len(batch_files)
           j == i * scan_args.sample_n
       IN  IF i < WriteTurns(scan_args.len_rows, scan_args.sample_n)
           THEN /\ batch_files' =
                       Append(batch_files, Min2(scan_args.sample_n, scan_args.len_rows - j))
                /\ UNCHANGED scan_pc
           ELSE /\ scan_pc' = "demux"
                /\ UNCHANGED batch_files
    /\ UNCHANGED <<dec, job, mainVars, hdr, logVars, sel, scan_args, invocations>>

\* lines 156-177 of a batched run: ('-batch_runID', i+1) puts an int in
\* demux_cmd and ' '.join(demux_cmd) raises TypeError before the command runs
DemuxJoinRaises ==
    /\ scan_pc = "demux"
    /\ Len(invocations) < DemuxTurns(scan_args.len_rows, scan_args.sample_n)
    /\ batched(scan_args.len_rows, scan_args.sample_n)
    /\ scan_pc' = "raised"
    /\ UNCHANGED <<dec, job, mainVars, hdr, logVars, sel, scan_args, batch_files, invocations>>

\* lines 156-179: turn i runs the command with -samplesheet <run>_<i>.csv;
\* check_call returns, or raises CalledProcessError when the command fails
Demux ==
    /\ scan_pc = "demux"
    /\ Len(invocations) < DemuxTurns(scan_args.len_rows, scan_args.sample_n)
    /\ ~batched(scan_args.len_rows, scan_args.sample_n)
    /\ invocations' = Append(invocations, Len(invocations))
    /\ \E failed \in BOOLEAN : scan_pc' = IF failed THEN "raised" ELSE "demux"
    /\ UNCHANGED <<dec, job, mainVars, hdr, logVars, sel, scan_args, batch_files>>

\* lines 181-183: the mail is sent and the run added to demux_set
DemuxDone ==
    /\ scan_pc = "demux"
    /\ Len(invocations) = DemuxTurns(scan_args.len_rows, scan_args.sample_n)
    /\ scan_pc' = "done"
    /\ UNCHANGED <<dec, job, mainVars, hdr, logVars, sel, scan_args, batch_files, invocations>>

NextScan ==
    \/ WriteBatch
    \/ DemuxJoinRaises
    \/ Demux
    \/ DemuxDone

SpecScan == InitScan /\ [][NextScan]_vars

(***************************************************************************)
(* Notions the claims about the decoder are stated with.                   *)
(***************************************************************************)
CountTrue(cf) == Cardinality({k \in 1..Len(cf) : cf[k]})

AllTrue(cf) == \A k \in 1..Len(cf) : cf[k]

\* the number of clusters the block of a tile holds
BlockClusters(excluded, cf) == IF excluded THEN CountTrue(cf) ELSE Len(cf)

\* the block decompresses to the bytes its clusters need, as the header says
WellFormed(excluded, tile, cf) ==
    /\ tile.gz = "ok"
    /\ tile.usize = Len(tile.data)
    /\ Len(tile.data) = (BlockClusters(excluded, cf) + 1) \div 2

\* the basecall at nibble position q (from 0) of a block
BaseAt(data, q) ==
    IF q % 2 = 0 THEN LowBase(data[(q \div 2) + 1]) ELSE HighBase(data[(q \div 2) + 1])

\* the nibble position of physical cluster p (from 0): its index, or its
\* rank among the PF clusters when the block holds only those
NibblePos(excluded, cf, p) ==
    IF excluded THEN Cardinality({q \in 0..(p - 1) : cf[q + 1]}) ELSE p

\* the physical indices in S in ascending order
RECURSIVE Ascending(_)
Ascending(S) ==
    IF S = {} THEN <<>>
    ELSE LET m == CHOOSE x \in S : \A y \in S : x <= y IN <<m>> \o Ascending(S \ {m})

PFWithParity(cf, r) == {p \in 0..(Len(cf) - 1) : cf[p + 1] /\ p % 2 = r}

\* PF clusters of even physical index, then PF clusters of odd physical index
ExpectedVector(excluded, tile, cf) ==
    LET order == Ascending(PFWithParity(cf, 0)) \o Ascending(PFWithParity(cf, 1)) IN
    [k \in 1..Len(order) |-> BaseAt(tile.data, NibblePos(excluded, cf, order[k]))]

Decoded == dec.st = "out" /\ dec.out.kind = "vec"

(***************************************************************************)
(* C4: a block of only PF clusters decoded with nonPfClustersExcluded=true *)
(* and the same block decoded with nonPfClustersExcluded=false under an    *)
(* all-true filter give the same basecall vector, for even and odd cluster *)
(* counts.                                                                 *)
(***************************************************************************)
C4_ExcludedEquivalence ==
    (dec.st = "out" /\ AllTrue(dec.cf) /\ WellFormed(dec.excluded, dec.tile, dec.cf))
        => /\ dec.out.kind = "vec"
           /\ dec.out = decode_block(~dec.excluded, dec.tile, dec.cf)

(***************************************************************************)
(* C5 as stated: the block 00 01 02 03 33 has low-nibble sequence          *)
(* 0,1,2,3,3, high-nibble sequence 0,1,2,3,3 and decodes to                *)
(* A,C,G,T,T,A,C,G,T,T.                                                    *)
(***************************************************************************)
IsExample ==
    /\ dec.st = "out"
    /\ dec.excluded
    /\ dec.tile = [gz |-> "ok", usize |-> 5, data |-> ExampleBlock]

C5_WorkedExampleAsStated ==
    IsExample
        => /\ LowBases(dec.tile.data) = <<0, 1, 2, 3, 3>>
           /\ HighBases(dec.tile.data) = <<0, 1, 2, 3, 3>>
           /\ dec.out.kind = "vec"
           /\ ToChars(dec.out.v) = <<"A", "C", "G", "T", "T", "A", "C", "G", "T", "T">>

(***************************************************************************)
(* C5 amended: the block 00 01 02 03 33 has low-nibble sequence 0,1,2,3,3, *)
(* high-nibble sequence 0,0,0,0,3 and decodes to A,C,G,T,T,A,A,A,A,T.      *)
(***************************************************************************)
C5_WorkedExample ==
    IsExample
        => /\ LowBases(dec.tile.data) = <<0, 1, 2, 3, 3>>
           /\ HighBases(dec.tile.data) = <<0, 0, 0, 0, 3>>
           /\ dec.out.kind = "vec"
           /\ ToChars(dec.out.v) = <<"A", "C", "G", "T", "T", "A", "A", "A", "A", "T">>

C5_Witness == IsExample /\ Len(dec.out.v) = 10

(***************************************************************************)
(* C7: a decoded vector has the tile's PF cluster count as its length and  *)
(* lists the PF clusters of even physical index in ascending order, then   *)
(* those of odd physical index; the padding nibble of an odd count is not  *)
(* in it.                                                                  *)
(***************************************************************************)
C7_EvenThenOdd ==
    (Decoded /\ WellFormed(dec.excluded, dec.tile, dec.cf))
        => /\ Len(dec.out.v) = CountTrue(dec.cf)
           /\ dec.out.v = ExpectedVector(dec.excluded, dec.tile, dec.cf)

(***************************************************************************)
(* Notions the claims about one task are stated with.                      *)
(***************************************************************************)
InRange == RangeSet(job.i, job.n_tiles, job.nproc)

NCycles == Len(job.cbcl_files)

Yields(ii) == get_byte_lists(job.cbcl_files, job.filters, ii)

TaskDone == job.st = "out"

RECURSIVE SumCounts(_)
SumCounts(counter) ==
    IF DOMAIN counter = {} THEN 0
    ELSE LET r == CHOOSE x \in DOMAIN counter : TRUE IN
         counter[r] + SumCounts([x \in DOMAIN counter \ {r} |-> counter[x]])

RECURSIVE SumPF(_)
SumPF(S) ==
    IF S = {} THEN 0
    ELSE LET ii == CHOOSE x \in S : TRUE IN CountTrue(job.filters[ii + 1]) + SumPF(S \ {ii})

\* every block of the task that decompresses holds the bytes of its clusters
TaskWellFormed ==
    \A ii \in InRange, j \in 1..NCycles :
        LET ci == job.cbcl_files[j] IN
        ci.tiles[ii + 1].gz = "ok"
            => WellFormed(ci.non_PF_clusters_excluded, ci.tiles[ii + 1], job.filters[ii + 1])

\* cycle file j is the only one whose block of tile ii does not decompress,
\* the others decode to vectors of one length, and the task's other tiles
\* raise nothing
OnlyCorrupt(ii, j) ==
    /\ job.cbcl_files[j].tiles[ii + 1].gz # "ok"
    /\ NCycles > 1
    /\ \A j2 \in (1..NCycles) \ {j} : Yields(ii)[j2].kind = "vec"
    /\ \A j2, j3 \in (1..NCycles) \ {j} : Len(Yields(ii)[j2].v) = Len(Yields(ii)[j3].v)
    /\ \A i2 \in InRange \ {ii} : TileMatrix(job.cbcl_files, job.filters, i2).exc = ""

\* read k of tile ii when cycle file j is corrupt: N in column j, the
\* decoded basecall of the other cycle files elsewhere
ReadWithN(ii, j, k) ==
    [c \in 1..NCycles |-> IF c = j THEN "N" ELSE Chars[Yields(ii)[c].v[k] + 1]]

RowsWithout(ii, j) ==
    LET j2 == CHOOSE c \in (1..NCycles) \ {j} : TRUE IN Len(Yields(ii)[j2].v)

(***************************************************************************)
(* C2: when the block of exactly one cycle file j (the first included) of  *)
(* a tile does not decompress, the task is not aborted and every read of   *)
(* the tile is produced with N in column j and the decoded basecall in the *)
(* other columns.                                                          *)
(***************************************************************************)
C2_CorruptCycleGivesN ==
    TaskDone =>
        \A ii \in InRange, j \in 1..NCycles :
            OnlyCorrupt(ii, j) =>
                /\ job.out.status = "written"
                /\ \A k \in 1..RowsWithout(ii, j) :
                       ReadWithN(ii, j, k) \in DOMAIN job.out.artifact

(***************************************************************************)
(* C6: the counts a completed task writes sum to the PF cluster count of   *)
(* its tiles.                                                              *)
(***************************************************************************)
C6_CountsSumToPF ==
    (TaskDone /\ job.out.status = "written" /\ TaskWellFormed)
        => SumCounts(job.out.artifact) = SumPF(InRange)

(***************************************************************************)
(* C10: when a decoded vector of some cycle file of a tile has a length    *)
(* other than the tile's PF cluster count, the task ends with an error and *)
(* no read of that tile is counted into an artifact.                       *)
(***************************************************************************)
C10_LengthMismatchIsFatal ==
    TaskDone =>
        \A ii \in InRange :
            (\E j \in 1..NCycles :
                /\ Yields(ii)[j].kind = "vec"
                /\ Len(Yields(ii)[j].v) # CountTrue(job.filters[ii + 1]))
            => /\ job.out.status = "failed"
               /\ \A k \in 1..Len(job.out.visited) : job.out.visited[k] # ii

(***************************************************************************)
(* Notions the claims about the coordinator are stated with.               *)
(***************************************************************************)
Submitted == 1..Len(tasks)

Groups == 1..Len(cbcl_file_lists)

\* the tasks dispatched for the g-th lane
GroupTasks(g) == {x \in Submitted : tasks[x].lane = cbcl_file_lists[g].lane}

\* i, i+n, i+2n, ... below m
Strided(i, n, m) == Ascending({t \in 0..(m - 1) : t % n = i})

Elems(s) == {s[k] : k \in 1..Len(s)}

\* the artifact index_counts_<N> of task x
ArtifactOf(x) == artifacts[tasks[x].out_file + 1]

Failed(x) == results[x].status = "failed"

Written(x) == results[x].status = "written"

C3_Caught ==
    \A x \in 1..Len(results) :
        /\ results[x].status \in {"queued", "running", "written", "failed"}
        /\ Failed(x) =>
               /\ results[x].exc # ""
               /\ results[x].log[Len(results[x].log)] = "encountered exception in process"

C3_NoRerun ==
    \A x \in 1..Len(results) :
        Finished(x) => (results'[x] = results[x] /\ x \notin running')

C3_SomeTaskRaised == \E x \in 1..Len(results) : Failed(x)

C3_DoneAroundFailure ==
    /\ pc = "done"
    /\ \A y \in Submitted :
         /\ Finished(y)
         /\ ~Failed(y) => (Written(y) /\ ArtifactOf(y).writes = 1)

NamesIncrease ==
    \A x, y \in Submitted : x < y => tasks[x].out_file < tasks[y].out_file

DeclaredSize(file) == 12 + 8 * file.number_of_bins + 4 + 16 * file.number_of_tile_records + 1

\* the file has the fields that declare its counts
CountsReadable(file) == file.size >= 12 + 8 * file.number_of_bins + 4

(***************************************************************************)
(* C11: a header that declares zero tile records, or whose file is shorter *)
(* than the bins and tile records it declares, is not parsed into a header *)
(* record: read_cbcl_data raises.                                          *)
(***************************************************************************)
C11_MalformedHeaderFails ==
    hdr.st = "out" =>
        ((\/ hdr.file.size < DeclaredSize(hdr.file)
          \/ (CountsReadable(hdr.file) /\ hdr.file.number_of_tile_records = 0))
            => hdr.out.kind = "raise")

(***************************************************************************)
(* C12: the listener ends only on the STOP sentinel, the sentinel is put   *)
(* on the queue only after the pool has been joined, and on every run,     *)
(* also one where the submission raises, the listener ends in the end.     *)
(***************************************************************************)
C12_StopAfterJoin ==
    (\E k \in 1..Len(log_queue) : log_queue[k] = "STOP") \/ log_thread = "ended"
        => (rx_pc \in {"join_thread", "done"} /\ rx_handled = RxTuples)

C12_ListenerTerminates ==
    /\ []C12_StopAfterJoin
    /\ <>(log_thread = "ended")

(***************************************************************************)
(* C13: the list selected for a task holds the files of one lane/part      *)
(* group whose cycle lies in [index_cycle_start, index_cycle_end), each    *)
(* once, in strictly ascending cycle order, also when the lane has more    *)
(* than one part.                                                          *)
(***************************************************************************)
C13_AscendingSelection ==
    sel.st = "out" =>
        /\ \A k, l \in 1..Len(sel.out) :
               k < l => (/\ sel.out[k].part = sel.out[l].part
                         /\ sel.out[k].cycle < sel.out[l].cycle)
        /\ \A k \in 1..Len(sel.out) :
               /\ sel.out[k] \in sel.files
               /\ sel.index_cycle_start <= sel.out[k].cycle
               /\ sel.out[k].cycle < sel.index_cycle_end
        /\ \A f \in sel.files :
               (f.part = 1 /\ in_range(f, sel.index_cycle_start, sel.index_cycle_end))
                   => \E k \in 1..Len(sel.out) : sel.out[k] = f

(***************************************************************************)
(* C14: every demux command of a scan names a batch file written earlier   *)
(* in the scan, and a run that has been demuxed had as many commands as    *)
(* batch files, ceil(R / sample_n) of them.                                *)
(***************************************************************************)
CeilDiv(a, b) == (a + b - 1) \div b

C14_InvocationPerBatch ==
    /\ \A k \in 1..Len(invocations) : invocations[k] < Len(batch_files)
    /\ scan_pc = "done" =>
           /\ Len(batch_files) = CeilDiv(scan_args.len_rows, scan_args.sample_n)
           /\ Len(invocations) = Len(batch_files)

====
